---- MODULE Spec2Model ----
(***************************************************************************)
(* Model of app.py, a Streamlit script that converts uploaded documents to *)
(* markdown.  Streamlit runs main() from top to bottom on every widget     *)
(* interaction (a "render"); st.session_state survives between renders,    *)
(* the rendered page and main()'s locals do not.  One render is modelled   *)
(* as: the action of the widget interaction that caused it (running        *)
(* main() down to the head of the per-file loop), one action per loop      *)
(* iteration, and one action for the code after the loop.                  *)
(*                                                                         *)
(* Strings are sequences of tokens.  A file name is the record             *)
(* [stem, suffix]; its text is the stem followed by the suffix.            *)
(***************************************************************************)
EXTENDS Integers, Sequences, FiniteSets, TLC

\* ---------------------------------------------------------------- bounds
\* Longest list of files the uploader widget holds (the files of one list
\* are distinct, so no list is longer than the number of FileNames).
MaxFiles == 3

\* ---------------------------------------------------------------- inputs
\* The file names a user may upload: two documents that differ only in
\* extension, and an image.
FileNames ==
    { [stem |-> "report", suffix |-> ".pdf"],
      [stem |-> "report", suffix |-> ".docx"],
      [stem |-> "photo",  suffix |-> ".png"] }

\* Values of the API key text input; "" is the untouched input.
ApiKeys == {"", "sk"}

\* Texts the conversion library may return (result.text_content): some text,
\* or the empty text.
Contents == { <<"alpha">>, <<>> }

NL == "\n"
PyNone == "None"
PyTrue == "True"
PyFalse == "False"

\* Python truthiness of None, a boolean or a string (a list is truthy when
\* it is not empty, written # <<>> where it occurs).
Truthy(v) == v \notin {PyNone, PyFalse, ""}

\* Lists of distinct files of length 0..n (the uploader's possible values).
RECURSIVE DistinctSeqs(_)
DistinctSeqs(n) ==
    IF n = 0 THEN { <<>> }
    ELSE LET shorter == DistinctSeqs(n - 1)
         IN  shorter \cup
             { Append(s, f) : s \in { t \in shorter : Len(t) = n - 1 },
                              f \in FileNames }

Range(s) == { s[i] : i \in 1..Len(s) }

Uploads == { s \in DistinctSeqs(MaxFiles) : Cardinality(Range(s)) = Len(s) }

VARIABLES
    \* st.session_state
    uploaded_files, converted_files, combined_markdown,
    conversion_started, dark_mode,
    \* widget values kept by Streamlit between renders
    openai_api_key, uploader,
    \* main()'s position and locals in the current render
    pc, idx, pressed, combined_content,
    \* the main area of the page as rendered so far
    view, notices, download_all, panels,
    \* the two directories on disk
    documents, converted,
    \* per-iteration log of the current render's loop
    outcome, calls

vars == << uploaded_files, converted_files, combined_markdown,
           conversion_started, dark_mode, openai_api_key, uploader,
           pc, idx, pressed, combined_content,
           view, notices, download_all, panels,
           documents, converted, outcome, calls >>

\* ------------------------------------------------------- pure functions
\* The text of a file name.
NameStr(name) ==
    IF name.suffix = "" THEN << name.stem >> ELSE << name.stem, name.suffix >>

\* mimetypes.guess_type(filename)[0]: decided by the extension alone.
guess_type(name) ==
    CASE name.suffix = ".pdf"  -> "application/pdf"
      [] name.suffix = ".docx" ->
           "application/vnd.openxmlformats-officedocument.wordprocessingml.document"
      [] name.suffix = ".png"  -> "image/png"
      [] OTHER                 -> PyNone

StartsWithImage(mimetype) ==
    mimetype = "image/png"

is_image_file_wrong_prefix(filename) ==
    LET mimetype == guess_type(filename)
    IN  IF mimetype = PyNone THEN PyNone ELSE PyFalse

\* "return mimetype and mimetype.startswith('image/')": None for an unknown
\* type, otherwise a boolean.
is_image_file(filename) ==
    LET mimetype == guess_type(filename)
    IN  IF mimetype = PyNone THEN PyNone
        ELSE IF StartsWithImage(mimetype) THEN PyTrue ELSE PyFalse

\* sep.join(list) for a list of strings.
RECURSIVE Join(_, _)
Join(sep, list) ==
    IF list = <<>> THEN <<>>
    ELSE IF Len(list) = 1 THEN list[1]
    ELSE list[1] \o sep \o Join(sep, Tail(list))

\* f"\n## {uploaded_file.name}\n"
Header(name) == << NL, "## " >> \o NameStr(name) \o << NL >>

\* save_dir / uploaded_file.name
DocPath(name) == [dir |-> "documents", name |-> name]

\* output_dir / f"{file_path.stem}.md"
OutputPath(file_path) == [dir |-> "converted", file |-> << file_path.name.stem, ".md" >>]

\* open(output_path, 'w').write(text): creates or replaces the file.
WriteFile(dir, path, text) ==
    { e \in dir : e.path # path } \cup { [path |-> path, text |-> text] }

\* OpenAI(api_key=openai_api_key) if openai_api_key else None
OpenAIClient(key) == IF Truthy(key) THEN "client" ELSE PyNone

LlmClient_any(file_path, openai_client) ==
    IF Truthy(openai_client) THEN openai_client ELSE PyNone

\* The llm_client MarkItDown is constructed with (None: MarkItDown()).
LlmClient(file_path, openai_client) ==
    IF Truthy(is_image_file(file_path.name)) /\ Truthy(openai_client)
    THEN openai_client ELSE PyNone

\* ------------------------------------------------------------------ init
\* The session after initialize_session_state() and before any render.
Init ==
    /\ uploaded_files = <<>>
    /\ converted_files = <<>>
    /\ combined_markdown = <<>>
    /\ conversion_started = FALSE
    /\ dark_mode = FALSE
    /\ openai_api_key = ""
    /\ uploader = <<>>
    /\ pc = "idle"
    /\ idx = 0
    /\ pressed = FALSE
    /\ combined_content = <<>>
    /\ view = "welcome"
    /\ notices = <<>>
    /\ download_all = <<>>
    /\ panels = <<>>
    /\ documents = {}
    /\ converted = {}
    /\ outcome = <<>>
    /\ calls = <<>>

\* ------------------------------------------------- a render up to the loop
\* Every render runs to its end before the next widget interaction is
\* served: the actions below are enabled only between renders.
main_keeps_results(dm, key, files, click) ==
    /\ pc = "idle"
    /\ dark_mode' = dm
    /\ openai_api_key' = key
    /\ uploader' = files
    /\ uploaded_files' = IF files # <<>> THEN files ELSE uploaded_files
    /\ pressed' = click
    /\ conversion_started' = (click \/ conversion_started)
    /\ UNCHANGED << converted_files, combined_markdown >>
    /\ notices' = <<>>
    /\ download_all' = <<>>
    /\ panels' = <<>>
    /\ outcome' = <<>>
    /\ calls' = <<>>
    /\ combined_content' = <<>>
    /\ UNCHANGED << documents, converted >>
    /\ IF ~conversion_started'
       THEN view' = "welcome" /\ pc' = "idle" /\ idx' = 0
       ELSE /\ view' = "converting"
            /\ IF converted_files' = <<>>
               THEN pc' = "loop" /\ idx' = 1
               ELSE pc' = "idle" /\ idx' = 0

\* main() from its first line to the head of the per-file loop, in the render
\* caused by one widget interaction: dm, key and files are the widget values
\* of this render, click is the return value of the Convert button.
main(dm, key, files, click) ==
    /\ pc = "idle"
    /\ dark_mode' = dm
    /\ openai_api_key' = key
    /\ uploader' = files
    /\ uploaded_files' = IF files # <<>> THEN files ELSE uploaded_files
    /\ pressed' = click
    /\ conversion_started' = (click \/ conversion_started)
    /\ converted_files' = IF click THEN <<>> ELSE converted_files
    /\ combined_markdown' = IF click THEN <<>> ELSE combined_markdown
    \* the page is drawn afresh
    /\ notices' = <<>>
    /\ download_all' = <<>>
    /\ panels' = <<>>
    /\ outcome' = <<>>
    /\ calls' = <<>>
    /\ combined_content' = <<>>
    /\ UNCHANGED << documents, converted >>
    /\ IF ~conversion_started'
       THEN view' = "welcome" /\ pc' = "idle" /\ idx' = 0
       ELSE /\ view' = "converting"
            /\ IF converted_files' = <<>>
               THEN pc' = "loop" /\ idx' = 1
               ELSE pc' = "idle" /\ idx' = 0

\* The widget interactions, each causing one render.
ToggleDarkMode ==
    \E dm \in {~dark_mode} :
        main(dm, openai_api_key, uploader, FALSE)

EnterApiKey ==
    \E key \in ApiKeys \ {openai_api_key} :
        main(dark_mode, key, uploader, FALSE)

ChangeUploads ==
    \E files \in Uploads \ {uploader} :
        main(dark_mode, openai_api_key, files, FALSE)

\* The button is disabled while the uploader is empty.
PressConvert ==
    /\ uploader # <<>>
    /\ main(dark_mode, openai_api_key, uploader, TRUE)

ClickDownloadAll ==
    /\ download_all # <<>>
    /\ main(dark_mode, openai_api_key, uploader, FALSE)

ClickDownloadFile ==
    /\ panels # <<>>
    /\ main(dark_mode, openai_api_key, uploader, FALSE)

\* ------------------------------------------------------ the per-file loop
InLoop == pc = "loop" /\ idx <= Len(uploaded_files)

uploaded_file == uploaded_files[idx]

Notice(kind, name) == [kind |-> kind, name |-> name]

\* The name field of a notice that is about no file.
NoFile == [stem |-> "", suffix |-> ""]

LoopFrame ==
    UNCHANGED << uploaded_files, conversion_started, dark_mode,
                 openai_api_key, uploader, pressed, view, download_all,
                 panels, combined_markdown >>

SkipImage_silent ==
    /\ InLoop
    /\ Truthy(is_image_file(uploaded_file)) /\ ~Truthy(openai_api_key)
    /\ idx' = idx + 1
    /\ outcome' = Append(outcome, "skipped")
    /\ UNCHANGED << notices, pc, converted_files, combined_content, documents,
                    converted, calls >>
    /\ LoopFrame

\* An image without an API key: warning, continue.
SkipImage ==
    /\ InLoop
    /\ Truthy(is_image_file(uploaded_file)) /\ ~Truthy(openai_api_key)
    /\ notices' = Append(notices, Notice("warning", uploaded_file))
    /\ idx' = idx + 1
    /\ outcome' = Append(outcome, "skipped")
    /\ UNCHANGED << pc, converted_files, combined_content, documents,
                    converted, calls >>
    /\ LoopFrame

NotSkipped ==
    /\ InLoop
    /\ ~(Truthy(is_image_file(uploaded_file)) /\ ~Truthy(openai_api_key))

\* save_uploaded_file raises inside its try: error notice, None, continue.
SaveFails ==
    /\ NotSkipped
    \* open() fails, or it creates the file and the write fails
    /\ \E created \in BOOLEAN :
          documents' = IF created THEN documents \cup { DocPath(uploaded_file) }
                       ELSE documents
    /\ notices' = Append(notices, Notice("error saving", uploaded_file))
    /\ idx' = idx + 1
    /\ outcome' = Append(outcome, "save failed")
    /\ UNCHANGED << pc, converted_files, combined_content, converted, calls >>
    /\ LoopFrame

ConvertFails_break ==
    /\ NotSkipped
    /\ documents' = documents \cup { DocPath(uploaded_file) }
    /\ calls' = Append(calls,
                  [path |-> DocPath(uploaded_file),
                   llm_client |-> LlmClient(DocPath(uploaded_file),
                                            OpenAIClient(openai_api_key))])
    /\ \E truncated \in BOOLEAN :
          converted' = IF truncated
                       THEN WriteFile(converted,
                                      OutputPath(DocPath(uploaded_file)), <<>>)
                       ELSE converted
    /\ notices' = Append(notices, Notice("error converting", uploaded_file))
    /\ idx' = Len(uploaded_files) + 1
    /\ outcome' = Append(outcome, "convert failed")
    /\ UNCHANGED << pc, converted_files, combined_content >>
    /\ LoopFrame

\* The file is saved; md.convert (or writing the output) raises inside
\* convert_to_markdown's try: error notice, (None, None), continue.
ConvertFails ==
    /\ NotSkipped
    /\ documents' = documents \cup { DocPath(uploaded_file) }
    /\ calls' = Append(calls,
                  [path |-> DocPath(uploaded_file),
                   llm_client |-> LlmClient(DocPath(uploaded_file),
                                            OpenAIClient(openai_api_key))])
    \* md.convert raises, or open(output_path, 'w') has emptied the output
    \* file and the write raises
    /\ \E truncated \in BOOLEAN :
          converted' = IF truncated
                       THEN WriteFile(converted,
                                      OutputPath(DocPath(uploaded_file)), <<>>)
                       ELSE converted
    /\ notices' = Append(notices, Notice("error converting", uploaded_file))
    /\ idx' = idx + 1
    /\ outcome' = Append(outcome, "convert failed")
    /\ UNCHANGED << pc, converted_files, combined_content >>
    /\ LoopFrame

ConvertSucceeds_no_header ==
    /\ NotSkipped
    /\ \E content \in Contents :
         LET file_path == DocPath(uploaded_file)
             output_path == OutputPath(file_path)
         IN  /\ documents' = documents \cup { file_path }
             /\ calls' = Append(calls,
                   [path |-> file_path,
                    llm_client |-> LlmClient(file_path,
                                             OpenAIClient(openai_api_key))])
             /\ converted' = WriteFile(converted, output_path, content)
             /\ combined_content' = Append(combined_content, content)
             /\ converted_files' = Append(converted_files,
                   [name |-> uploaded_file,
                    path |-> output_path,
                    content |-> content,
                    is_image |-> is_image_file(uploaded_file)])
    /\ idx' = idx + 1
    /\ outcome' = Append(outcome, "converted")
    /\ UNCHANGED << pc, notices >>
    /\ LoopFrame

\* The file is saved and converted: the output is written, the header and
\* the text are appended to combined_content, the record is stored.
ConvertSucceeds ==
    /\ NotSkipped
    /\ \E content \in Contents :
         LET file_path == DocPath(uploaded_file)
             output_path == OutputPath(file_path)
         IN  /\ documents' = documents \cup { file_path }
             /\ calls' = Append(calls,
                   [path |-> file_path,
                    llm_client |-> LlmClient(file_path,
                                             OpenAIClient(openai_api_key))])
             /\ converted' = WriteFile(converted, output_path, content)
             /\ combined_content' =
                   combined_content \o << Header(uploaded_file), content >>
             /\ converted_files' = Append(converted_files,
                   [name |-> uploaded_file,
                    path |-> output_path,
                    content |-> content,
                    is_image |-> is_image_file(uploaded_file)])
    /\ idx' = idx + 1
    /\ outcome' = Append(outcome, "converted")
    /\ UNCHANGED << pc, notices >>
    /\ LoopFrame

FinishRun_unjoined ==
    /\ pc = "loop"
    /\ idx > Len(uploaded_files)
    /\ combined_markdown' = Join(<<>>, combined_content)
    /\ notices' = Append(notices, Notice("success", NoFile))
    /\ download_all' = << combined_markdown' >>
    /\ panels' = converted_files
    /\ pc' = "idle"
    /\ UNCHANGED << uploaded_files, converted_files, conversion_started,
                    dark_mode, openai_api_key, uploader, idx, pressed,
                    combined_content, view, documents, converted, outcome,
                    calls >>

\* After the loop: the buffer is joined and stored, the combined download
\* and one panel (with its download) per record are drawn; the render ends.
FinishRun ==
    /\ pc = "loop"
    /\ idx > Len(uploaded_files)
    /\ combined_markdown' = Join(<< NL >>, combined_content)
    /\ notices' = Append(notices, Notice("success", NoFile))
    /\ download_all' = << combined_markdown' >>
    /\ panels' = converted_files
    /\ pc' = "idle"
    /\ UNCHANGED << uploaded_files, converted_files, conversion_started,
                    dark_mode, openai_api_key, uploader, idx, pressed,
                    combined_content, view, documents, converted, outcome,
                    calls >>

Next ==
    \/ ToggleDarkMode
    \/ EnterApiKey
    \/ ChangeUploads
    \/ PressConvert
    \/ ClickDownloadAll
    \/ ClickDownloadFile
    \/ SkipImage
    \/ SaveFails
    \/ ConvertFails
    \/ ConvertSucceeds
    \/ FinishRun

Spec == Init /\ [][Next]_vars

\* ------------------------------------------------------------ properties
IsImageName(name) == name.suffix = ".png"

\* The render in progress ran the per-file loop and has finished.
RunCompleted == pc = "idle" /\ idx >= 1

\* One block of the combined text: the header line, then the text.
Block(record) == Header(record.name) \o << NL >> \o record.content

\* The blocks of the records, in order, one per record.
RECURSIVE Blocks(_)
Blocks(records) ==
    IF records = <<>> THEN <<>>
    ELSE IF Len(records) = 1 THEN Block(records[1])
    ELSE Block(records[1]) \o << NL >> \o Blocks(Tail(records))

Names(records) == [ i \in 1..Len(records) |-> records[i].name ]

\* The files among the first n uploaded whose iteration ended with `result`.
RECURSIVE FilesWith(_, _)
FilesWith(result, n) ==
    IF n = 0 THEN <<>>
    ELSE IF outcome[n] = result
         THEN Append(FilesWith(result, n - 1), uploaded_files[n])
         ELSE FilesWith(result, n - 1)

Occurs(sub, s) ==
    \E i \in 0..(Len(s) - Len(sub)) : SubSeq(s, i + 1, i + Len(sub)) = sub

IsPrefix(s, t) == Len(s) <= Len(t) /\ SubSeq(t, 1, Len(s)) = s

Failed == {"save failed", "convert failed"}

\* C1 (as stated): in every state, also between the per-file steps, the
\* combined buffer is the concatenation of the held records' blocks.
C1_BufferAlwaysMatchesRecords ==
    combined_markdown = Blocks(converted_files)

\* C1 (amended): outside the per-file loop the combined buffer is the
\* concatenation of the held records' blocks; while the loop runs the buffer
\* stays empty whatever records are held.
C1_BufferMatchesRecordsOutsideLoop ==
    /\ pc = "idle" => combined_markdown = Blocks(converted_files)
    /\ pc = "loop" => combined_markdown = <<>>

C1_Witness ==
    /\ pc = "idle"
    /\ Len(converted_files) = 2
    /\ combined_markdown # <<>>

\* C2: when a run completes, the combined download offers exactly the join
\* of one header+text block per held record; N non-image files that all
\* convert give N blocks, in upload order.
C2_CombinedDownloadIsJoinOfBlocks ==
    RunCompleted =>
        /\ download_all = << Blocks(converted_files) >>
        /\ ( \A i \in 1..Len(uploaded_files) :
                 ~IsImageName(uploaded_files[i]) /\ outcome[i] = "converted" )
           => /\ Len(converted_files) = Len(uploaded_files)
              /\ Names(converted_files) = uploaded_files

C2_Witness ==
    /\ RunCompleted
    /\ Len(uploaded_files) = 2
    /\ \A i \in 1..2 :
          ~IsImageName(uploaded_files[i]) /\ outcome[i] = "converted"
    /\ converted_files[1].content # converted_files[2].content

\* C3: a file whose save or conversion fails leaves no record and no block,
\* the failing step keeps the records made so far and moves to the next file,
\* and a completed run has processed every uploaded file and recorded each
\* one that converted.
C3_FailureState ==
    /\ \A i \in 1..Len(outcome) :
          outcome[i] \in Failed =>
             /\ uploaded_files[i] \notin Range(Names(converted_files))
             /\ ~Occurs(Header(uploaded_files[i]), Join(<< NL >>, combined_content))
             /\ ~Occurs(Header(uploaded_files[i]), combined_markdown)
    /\ RunCompleted =>
          /\ Len(outcome) = Len(uploaded_files)
          /\ Names(converted_files) = FilesWith("converted", Len(outcome))

C3_FailureStep ==
    (Len(outcome') = Len(outcome) + 1 /\ outcome'[Len(outcome')] \in Failed)
    => /\ converted_files' = converted_files
       /\ combined_content' = combined_content
       /\ pc' = "loop"
       /\ idx' = idx + 1

C3_FailureIsLocal ==
    [] C3_FailureState /\ [][C3_FailureStep]_vars

C3_Witness ==
    /\ RunCompleted
    /\ outcome = << "converted", "convert failed", "converted" >>
    /\ Len(converted_files) = 2

\* C4: in a run without API key every image file is skipped: one warning, no
\* record, no conversion call, no block; the other files are still processed.
C4_ImageWithoutKeyIsSkipped ==
    (RunCompleted /\ openai_api_key = "") =>
        \A i \in 1..Len(uploaded_files) :
            LET f == uploaded_files[i]
            IN  IF IsImageName(f)
                THEN /\ outcome[i] = "skipped"
                     /\ Cardinality({ n \in 1..Len(notices) :
                           notices[n] = Notice("warning", f) }) = 1
                     /\ f \notin Range(Names(converted_files))
                     /\ \A c \in Range(calls) : c.path.name # f
                     /\ ~Occurs(Header(f), combined_markdown)
                ELSE /\ outcome[i] # "skipped"
                     /\ \A n \in 1..Len(notices) : notices[n] # Notice("warning", f)

C4_Witness ==
    /\ RunCompleted
    /\ openai_api_key = ""
    /\ Len(uploaded_files) = 2
    /\ IsImageName(uploaded_files[1])
    /\ outcome = << "skipped", "converted" >>

\* C5: in a render in which Convert was pressed, the records and the buffer
\* are empty before the first file is processed, and every record held during
\* and after the run was created in this run, once per file.
C5_RerunStartsFromEmpty ==
    pressed =>
        /\ Len(outcome) = 0 => converted_files = <<>>
        /\ Names(converted_files) = FilesWith("converted", Len(outcome))
        /\ Cardinality(Range(Names(converted_files))) = Len(converted_files)
        /\ pc = "loop" => combined_markdown = <<>>
        /\ pc = "idle" => Len(outcome) = Len(uploaded_files)

\* Two outputs on disk after a run over one file: an earlier run made one.
C5_Witness ==
    /\ pressed
    /\ RunCompleted
    /\ Len(uploaded_files) = 1
    /\ Len(converted_files) = 1
    /\ Cardinality(converted) = 2

\* C6: the records are, in upload order, exactly the files whose iteration
\* converted, each flagged as image exactly when its name is an image name;
\* held records only change by a reset to empty when Convert is pressed.
C6_RecordState ==
    /\ idx >= 1 => Names(converted_files) = FilesWith("converted", Len(outcome))
    /\ \A i \in 1..Len(converted_files) :
          Truthy(converted_files[i].is_image)
             <=> IsImageName(converted_files[i].name)

C6_RecordStep ==
    \/ IsPrefix(converted_files, converted_files')
    \/ pressed' /\ converted_files' = <<>>

C6_OneRecordPerConvertedFile ==
    [] C6_RecordState /\ [][C6_RecordStep]_vars

C6_Witness ==
    /\ RunCompleted
    /\ openai_api_key # ""
    /\ Len(converted_files) = 2
    /\ converted_files[1].is_image = PyTrue
    /\ converted_files[2].is_image = PyFalse

\* C7: after a run the output locations of the records are pairwise
\* different, each holds its record's text, and the converted directory
\* holds as many outputs as files converted.
C7_OneOutputPerInput ==
    RunCompleted =>
        /\ \A i, j \in 1..Len(converted_files) :
              i # j => converted_files[i].path # converted_files[j].path
        /\ \A i \in 1..Len(converted_files) :
              [path |-> converted_files[i].path,
               text |-> converted_files[i].content] \in converted
        /\ Cardinality(converted) = Len(converted_files)

\* C8: a conversion is given the AI client exactly when its file is an image
\* and the API key is not empty.
C8_ClientOnlyForImagesWithKey ==
    \A n \in 1..Len(calls) :
        Truthy(calls[n].llm_client)
           <=> (IsImageName(calls[n].path.name) /\ openai_api_key # "")

C8_Witness ==
    /\ RunCompleted
    /\ Len(calls) = 2
    /\ calls[1].llm_client = PyNone
    /\ calls[2].llm_client # PyNone

\* C9: whenever records are held and no loop is running, the page shows one
\* panel with its download per record and the combined download.
C9_ResultsStayOnPage ==
    (pc = "idle" /\ converted_files # <<>>) =>
        /\ panels = converted_files
        /\ download_all = << combined_markdown >>

\* C10: once conversion has been started and its run has completed, a render
\* of the same file set in which Convert is not pressed does not enter the
\* per-file loop.
C10_NoLoopWithoutPress ==
    [][ ( /\ pc = "idle"
          /\ conversion_started
          /\ ~pressed'
          /\ uploaded_files' = uploaded_files )
        => pc' = "idle" ]_vars

====
